---- MODULE Spec2Model ----
(***************************************************************************)
(* Model of the turing-chat backend (server.js): the in-memory session     *)
(* store, the global message counter, the chat / poll / operator handlers  *)
(* and the suspension of the chat handler on the Gemini call.              *)
(*                                                                         *)
(* The repository holds two builds of the server, src/unnamed/part_000 and *)
(* src/backend/server.js.  Their handlers are the same except that the     *)
(* backend build has no system prompt, words its stub answer differently   *)
(* and leaves replyIndex out of the chat response; env.build says which    *)
(* file the process was started on.                                        *)
(*                                                                         *)
(* Node runs every handler to completion on one thread; the only place a   *)
(* handler can be interleaved with others is the `await askGemini(...)` of *)
(* POST /api/chat when the call really goes to the network.  Each action   *)
(* below is therefore one run-to-completion segment of a handler.          *)
(* The actions model requests that reached the route handler, i.e. that    *)
(* were let through by the requireBasicAuth middleware where one is        *)
(* mounted.                                                                *)
(*                                                                         *)
(* A text is modelled by the pair (truthy, len): whether the JSON value is *)
(* truthy for `!text`, and the number of UTF-16 units of String(text).     *)
(* Stored message texts and timestamps are modelled by their length and    *)
(* by the clock value at the push.                                         *)
(***************************************************************************)
EXTENDS Integers, Sequences, FiniteSets, TLC

VARIABLES env, sessions, globalIndex, pending, now, res

vars == <<env, sessions, globalIndex, pending, now, res>>

(* ------------------------------ bounds --------------------------------- *)
MaxSessions == 2
MaxIndex == 3
MaxPending == 2
MaxClock == 1

(* ------------------------- program constants --------------------------- *)
SliceLimit == 2000
StubHeadLen == 22
StubTailLen == 3
BackendStubHeadLen == 26
BackendStubTailLen == 45
DashLen == 1
FallbackLen == 31

(* ------------------------------ inputs --------------------------------- *)
NoSid == 0
SidInputs == 0..MaxSessions

\* a falsy text (missing, null or ''), which no handler converts to a string
Falsy == [truthy |-> FALSE, len |-> 0]
\* and two truthy ones: exactly at the slice limit, and one unit beyond it
TextInputs ==
  { Falsy,
    [truthy |-> TRUE, len |-> SliceLimit],
    [truthy |-> TRUE, len |-> SliceLimit + 1] }

NaN == [nan |-> TRUE, val |-> 0]
Num(n) == [nan |-> FALSE, val |-> n]
AfterInputs == {NaN} \cup {Num(n) : n \in 0..(MaxIndex - 2)}

ModeInputs == {"", "ai", "HUMAN", "mixed"}
ReplyLens == {SliceLimit + 1}

\* process configurations: the build started, GEMINI_API_KEY set or not,
\* SESSION_MODE ("" = unset), and the length of the trimmed SYSTEM_PROMPT
\* (0 = unset, DEFAULT_SYSTEM_PROMPT null)
EnvInputs ==
  { [build |-> "part_000", GEMINI_API_KEY |-> FALSE, SESSION_MODE |-> "", SYSTEM_PROMPT |-> 0],
    [build |-> "part_000", GEMINI_API_KEY |-> TRUE, SESSION_MODE |-> "human", SYSTEM_PROMPT |-> 4],
    [build |-> "backend", GEMINI_API_KEY |-> FALSE, SESSION_MODE |-> "", SYSTEM_PROMPT |-> 4] }

(* ------------------------------ helpers -------------------------------- *)
Min(a, b) == IF a < b THEN a ELSE b

Last(s) == s[Len(s)]

\* mutant: the mode compared as written, case and all
toUpperCase_identity(m) == m

\* String.prototype.toUpperCase on the mode strings
toUpperCase(m) ==
  CASE m \in {"AI", "ai"} -> "AI"
    [] m \in {"HUMAN", "human"} -> "HUMAN"
    [] m = "mixed" -> "MIXED"
    [] OTHER -> m

\* String(text).slice(0, 2000), on lengths
slice2000(text) == Min(text.len, SliceLimit)

\* mutant: >= instead of >
Gt_orEqual(i, after) == ~after.nan /\ i >= after.val

\* m.i > after, with JS comparison against NaN being false
Gt(i, after) == ~after.nan /\ i > after.val

\* the response a step sent, with the route that sent it (NoRes: a step that
\* sent none, such as a handler suspending on askGemini)
Res(route, status, body) == [route |-> route, status |-> status, body |-> body]
NoRes == Res("none", 0, [error |-> ""])
MissingFields(route) == Res(route, 400, [error |-> "sessionId y text son requeridos"])
NotFound(route) == Res(route, 404, [error |-> "Sesion no encontrada"])
InvalidState(route) == Res(route, 400, [error |-> "La sesion no es humana"])
InvalidInput(route) == Res(route, 400, [error |-> "Texto requerido"])
Internal(route) == Res(route, 500, [error |-> "Error procesando el mensaje"])
Ok(route, body) == Res(route, 200, body)

\* the conditions createSession can pick for a mode string
createSessionPick(mode) ==
  IF toUpperCase(mode) = "AI" THEN {"AI"}
  ELSE IF toUpperCase(mode) = "HUMAN" THEN {"human"}
  ELSE {"AI", "human"}

\* mutant: a per-session counter instead of the shared globalIndex
pushMessage_perSession(s, i, role, text, t) ==
  [s EXCEPT !.messages =
     Append(@, [i |-> Len(s.messages) + 1, role |-> role, text |-> text, t |-> t])]

\* the session record after pushMessage(session, role, text) at index i, time t
pushMessage(s, i, role, text, t) ==
  [s EXCEPT !.messages = Append(@, [i |-> i, role |-> role, text |-> text, t |-> t])]

\* mutant: the tail test without the condition test
isAwaitingOperator_anyCondition(s) ==
  Len(s.messages) > 0 /\ Last(s.messages).role = "user"

\* mutant: the tail test against the wrong role
isAwaitingOperator_wrongRole(s) ==
  IF s.condition # "human" THEN FALSE
  ELSE Len(s.messages) > 0 /\ Last(s.messages).role = "human"

\* mutant: one store-wide answer, true when any Human session waits
isAwaitingOperator_anySession(s) ==
  IF s.condition # "human" THEN FALSE
  ELSE \E k \in DOMAIN sessions :
         /\ sessions[k].condition = "human"
         /\ Len(sessions[k].messages) > 0
         /\ Last(sessions[k].messages).role = "user"

isAwaitingOperator(s) ==
  IF s.condition # "human" THEN FALSE
  ELSE Len(s.messages) > 0 /\ Last(s.messages).role = "user"

\* the stub answer of askGemini in the backend build, as a length
BackendStubReply(prompt) == BackendStubHeadLen + prompt.len + BackendStubTailLen

\* the stub answer of askGemini, as a length
StubReply(systemPrompt, prompt) ==
  IF env.build = "backend" THEN BackendStubReply(prompt)
  ELSE StubHeadLen + (IF systemPrompt > 0 THEN systemPrompt ELSE DashLen)
         + StubTailLen + prompt.len

\* the body of a successful chat response in the backend build
BackendChatReply(reply) == [reply |-> reply, queued |-> FALSE]

\* the body of a successful chat response: reply is the responder's result,
\* i the i of the ai message pushed for it
ChatReply(reply, i) ==
  IF env.build = "backend" THEN BackendChatReply(reply)
  ELSE [reply |-> reply, replyIndex |-> i, queued |-> FALSE]

Exists(sid) == sid \in DOMAIN sessions

(* ------------------------------- Init ---------------------------------- *)
Init ==
  /\ env \in EnvInputs
  /\ sessions = <<>>
  /\ globalIndex = 0
  /\ pending = {}
  /\ now = 0
  /\ res = NoRes

(* ------------------------------ actions -------------------------------- *)
\* the wall clock advances between requests
Tick ==
  /\ now < MaxClock
  /\ now' = now + 1
  /\ res' = NoRes
  /\ UNCHANGED <<env, sessions, globalIndex, pending>>

\* POST /api/session
CreateSession(q) ==
  /\ Len(sessions) < MaxSessions
  /\ LET mode == IF q # "" THEN q
                 ELSE IF env.SESSION_MODE # "" THEN env.SESSION_MODE ELSE "mixed"
         id == Len(sessions) + 1
     IN \E pick \in createSessionPick(mode) :
          /\ sessions' = Append(sessions,
                 [id |-> id, condition |-> pick, createdAt |-> now,
                  systemPrompt |-> IF env.build = "backend" THEN 0 ELSE env.SYSTEM_PROMPT,
                  messages |-> <<>>, awaitingOperator |-> FALSE])
          /\ res' = Ok("session", [sessionId |-> id, condition |-> pick])
  /\ UNCHANGED <<env, globalIndex, pending, now>>

\* the `after` filter of GET /api/messages
since(s, after) == SelectSeq(s.messages, LAMBDA m : Gt(m.i, after))

\* mutant: the whole log handed over, unfiltered
historyOf_all(s) == s.messages

\* history handed to askGemini: s.messages.filter(m => m.role !== 'ai')
historyOf(s) == SelectSeq(s.messages, LAMBDA m : m.role # "ai")

\* mutants: the flag assignment forgotten
markAwaiting_skip(s) == s
clearAwaiting_skip(s) == s

\* s.awaitingOperator = true / false
markAwaiting(s) == [s EXCEPT !.awaitingOperator = TRUE]
clearAwaiting(s) == [s EXCEPT !.awaitingOperator = FALSE]

\* the early returns of POST /api/chat (NoRes: none taken)
chatCheck(sid, text) ==
  IF sid = NoSid \/ ~text.truthy THEN MissingFields("chat")
  ELSE IF ~Exists(sid) THEN NotFound("chat")
  ELSE NoRes

\* mutant: the text is validated before the condition
replyCheck_textFirst(sid, text) ==
  IF ~Exists(sid) THEN NotFound("reply")
  ELSE IF ~text.truthy THEN InvalidInput("reply")
  ELSE IF sessions[sid].condition # "human" THEN InvalidState("reply")
  ELSE NoRes

\* mutant: a reply is refused unless the session waits for one
replyCheck_requireAwaiting(sid, text) ==
  IF ~Exists(sid) THEN NotFound("reply")
  ELSE IF sessions[sid].condition # "human" THEN InvalidState("reply")
  ELSE IF ~text.truthy THEN InvalidInput("reply")
  ELSE IF ~sessions[sid].awaitingOperator THEN InvalidState("reply")
  ELSE NoRes

\* mutant: the condition test left out
replyCheck_anyCondition(sid, text) ==
  IF ~Exists(sid) THEN NotFound("reply")
  ELSE IF ~text.truthy THEN InvalidInput("reply")
  ELSE NoRes

\* the early returns of POST /api/operator/reply (NoRes: none taken)
replyCheck(sid, text) ==
  IF ~Exists(sid) THEN NotFound("reply")
  ELSE IF sessions[sid].condition # "human" THEN InvalidState("reply")
  ELSE IF ~text.truthy THEN InvalidInput("reply")
  ELSE NoRes

\* POST /api/chat up to its response or up to the suspension on askGemini
SubmitUserMessage(sid, text) ==
  /\ IF chatCheck(sid, text) # NoRes
       THEN /\ res' = chatCheck(sid, text)
            /\ UNCHANGED <<sessions, globalIndex, pending, now>>
     ELSE
       LET s1 == pushMessage(sessions[sid], globalIndex + 1, "user", slice2000(text), now)
       IN IF s1.condition = "AI"
            THEN IF ~env.GEMINI_API_KEY
                   THEN \* stub: the await resumes before any other handler runs
                        /\ globalIndex + 2 <= MaxIndex
                        /\ \E t2 \in now..Min(now + 1, MaxClock) :
                             LET reply == StubReply(s1.systemPrompt, text)
                                 s2 == pushMessage(s1, globalIndex + 2, "ai", reply, t2)
                             IN /\ sessions' = [sessions EXCEPT ![sid] = s2]
                                /\ globalIndex' = globalIndex + 2
                                /\ now' = t2
                                /\ res' = Ok("chat", ChatReply(reply, globalIndex + 2))
                        /\ UNCHANGED pending
                   ELSE \* remote: the handler is suspended on fetch
                        /\ globalIndex + 1 <= MaxIndex
                        /\ Cardinality(pending) < MaxPending
                        /\ sessions' = [sessions EXCEPT ![sid] = s1]
                        /\ globalIndex' = globalIndex + 1
                        /\ pending' = pending \cup
                              {[sessionId |-> sid, prompt |-> text,
                                history |-> historyOf(s1), userI |-> globalIndex + 1]}
                        /\ res' = NoRes
                        /\ UNCHANGED now
            ELSE /\ globalIndex + 1 <= MaxIndex
                 /\ sessions' = [sessions EXCEPT ![sid] = markAwaiting(s1)]
                 /\ globalIndex' = globalIndex + 1
                 /\ res' = Ok("chat", [queued |-> TRUE])
                 /\ UNCHANGED <<pending, now>>
  /\ UNCHANGED env

\* POST /api/chat after askGemini resolved with `reply`
ChatResume(p, reply) ==
  /\ p \in pending
  /\ globalIndex + 1 <= MaxIndex
  /\ sessions' = [sessions EXCEPT ![p.sessionId] =
                    pushMessage(@, globalIndex + 1, "ai", reply, now)]
  /\ globalIndex' = globalIndex + 1
  /\ pending' = pending \ {p}
  /\ res' = Ok("chat", ChatReply(reply, globalIndex + 1))
  /\ UNCHANGED <<env, now>>

\* mutant: the failure path removes the user message of the request
ChatFail_rollback(p) ==
  /\ p \in pending
  /\ pending' = pending \ {p}
  /\ sessions' = [sessions EXCEPT ![p.sessionId].messages =
                    SelectSeq(@, LAMBDA m : m.i # p.userI)]
  /\ res' = Internal("chat")
  /\ UNCHANGED <<env, globalIndex, now>>

\* mutant: the failure path stores a fallback ai message before answering 500
ChatFail_fallbackReply(p) ==
  /\ p \in pending
  /\ globalIndex + 1 <= MaxIndex
  /\ pending' = pending \ {p}
  /\ sessions' = [sessions EXCEPT ![p.sessionId] =
                    pushMessage(@, globalIndex + 1, "ai", FallbackLen, now)]
  /\ globalIndex' = globalIndex + 1
  /\ res' = Internal("chat")
  /\ UNCHANGED <<env, now>>

\* POST /api/chat after askGemini threw (fetch rejected or HTTP status not ok)
ChatFail(p) ==
  /\ p \in pending
  /\ pending' = pending \ {p}
  /\ res' = Internal("chat")
  /\ UNCHANGED <<env, sessions, globalIndex, now>>

\* mutant: a store lock held across the responder call
PollMessages_locked(sid, after) ==
  /\ pending = {}
  /\ IF ~Exists(sid)
       THEN res' = NotFound("messages")
       ELSE res' = Ok("messages", [items |-> since(sessions[sid], after),
                                   awaitingOperator |-> isAwaitingOperator(sessions[sid])])
  /\ UNCHANGED <<env, sessions, globalIndex, pending, now>>

\* GET /api/messages
PollMessages(sid, after) ==
  /\ IF ~Exists(sid)
       THEN res' = NotFound("messages")
       ELSE res' = Ok("messages", [items |-> since(sessions[sid], after),
                                   awaitingOperator |-> isAwaitingOperator(sessions[sid])])
  /\ UNCHANGED <<env, sessions, globalIndex, pending, now>>

\* mutant: the message is pushed before the text is validated
OperatorReply_pushFirst(sid, text) ==
  /\ IF ~Exists(sid)
       THEN /\ res' = NotFound("reply")
            /\ UNCHANGED <<sessions, globalIndex>>
     ELSE IF sessions[sid].condition # "human"
       THEN /\ res' = InvalidState("reply")
            /\ UNCHANGED <<sessions, globalIndex>>
     ELSE /\ globalIndex + 1 <= MaxIndex
          /\ sessions' = [sessions EXCEPT ![sid] =
               clearAwaiting(pushMessage(@, globalIndex + 1, "human", slice2000(text), now))]
          /\ globalIndex' = globalIndex + 1
          /\ res' = IF ~text.truthy THEN InvalidInput("reply") ELSE Ok("reply", [ok |-> TRUE])
  /\ UNCHANGED <<env, pending, now>>

\* POST /api/operator/reply
OperatorReply(sid, text) ==
  /\ IF replyCheck(sid, text) # NoRes
       THEN /\ res' = replyCheck(sid, text)
            /\ UNCHANGED <<sessions, globalIndex>>
       ELSE /\ globalIndex + 1 <= MaxIndex
            /\ sessions' = [sessions EXCEPT ![sid] =
                 clearAwaiting(pushMessage(@, globalIndex + 1, "human", slice2000(text), now))]
            /\ globalIndex' = globalIndex + 1
            /\ res' = Ok("reply", [ok |-> TRUE])
  /\ UNCHANGED <<env, pending, now>>

\* [...s.messages].reverse().find(m => m.role === 'user'): index of the last
\* user message, 0 when there is none
lastUser(s) ==
  LET js == {j \in DOMAIN s.messages : s.messages[j].role = "user"}
  IN IF js = {} THEN 0 ELSE CHOOSE j \in js : \A k \in js : k <= j

\* the inbox item of a session
inboxItem(s) ==
  LET j == lastUser(s)
  IN [sessionId |-> s.id,
      lastUserText |-> IF j = 0 THEN 0 ELSE s.messages[j].text,
      lastAt |-> IF j = 0 THEN s.createdAt ELSE s.messages[j].t]

\* mutant: the sort forgotten, items left in session insertion order
sortItems_none(items) == items

\* items.sort((a, b) => new Date(b.lastAt) - new Date(a.lastAt)): a stable sort,
\* latest first
RECURSIVE sortItems(_)
sortItems(items) ==
  IF Len(items) <= 1 THEN items
  ELSE LET rest == sortItems(SubSeq(items, 1, Len(items) - 1))
           x == items[Len(items)]
           pos == Cardinality({k \in DOMAIN rest : rest[k].lastAt >= x.lastAt})
       IN SubSeq(rest, 1, pos) \o <<x>> \o SubSeq(rest, pos + 1, Len(rest))

\* the items of GET /api/operator/inbox, sessions visited in insertion order
inboxItems ==
  LET listed == SelectSeq(sessions,
                  LAMBDA s : s.condition = "human" /\ isAwaitingOperator(s))
  IN sortItems([k \in DOMAIN listed |-> inboxItem(listed[k])])

\* mutant: s.messages.reverse() on the log itself, not on a copy
OperatorInbox_reverseInPlace ==
  /\ res' = Ok("inbox", [items |-> inboxItems])
  /\ sessions' = [k \in DOMAIN sessions |->
                    IF sessions[k].condition = "human" /\ isAwaitingOperator(sessions[k])
                      THEN [sessions[k] EXCEPT !.messages =
                             [j \in 1..Len(@) |-> @[Len(@) + 1 - j]]]
                      ELSE sessions[k]]
  /\ UNCHANGED <<env, globalIndex, pending, now>>

\* GET /api/operator/inbox
OperatorInbox ==
  /\ res' = Ok("inbox", [items |-> inboxItems])
  /\ UNCHANGED <<env, sessions, globalIndex, pending, now>>

Next ==
  \/ Tick
  \/ \E q \in ModeInputs : CreateSession(q)
  \/ \E sid \in SidInputs, text \in TextInputs : SubmitUserMessage(sid, text)
  \/ \E p \in pending, reply \in ReplyLens \cup {FallbackLen} : ChatResume(p, reply)
  \/ \E p \in pending : ChatFail(p)
  \/ \E sid \in SidInputs, after \in AfterInputs : PollMessages(sid, after)
  \/ \E sid \in SidInputs, text \in TextInputs : OperatorReply(sid, text)
  \/ OperatorInbox

Spec == Init /\ [][Next]_vars

(* --------------------------- read-only views --------------------------- *)
\* GET /debrief/:id
GetDebrief(sid) ==
  /\ IF ~Exists(sid)
       THEN res' = NotFound("debrief")
       ELSE res' = Ok("debrief", [sessionId |-> sessions[sid].id,
                                  condition |-> sessions[sid].condition,
                                  createdAt |-> sessions[sid].createdAt,
                                  transcript |-> sessions[sid].messages])
  /\ UNCHANGED <<env, sessions, globalIndex, pending, now>>

\* GET /export: JSON.stringify([...sessions.values()])
ExportAll ==
  /\ res' = Ok("export", sessions)
  /\ UNCHANGED <<env, sessions, globalIndex, pending, now>>

\* GET /api/operator/messages
OperatorTranscript(sid) ==
  /\ IF ~Exists(sid)
       THEN res' = NotFound("transcript")
       ELSE res' = Ok("transcript", [sessionId |-> sessions[sid].id,
                                     messages |-> sessions[sid].messages,
                                     condition |-> sessions[sid].condition])
  /\ UNCHANGED <<env, sessions, globalIndex, pending, now>>

\* GET /api/_debug/sessions
DebugSessions ==
  /\ res' = Ok("debug", [k \in DOMAIN sessions |->
                          [id |-> sessions[k].id,
                           condition |-> sessions[k].condition,
                           msgs |-> Len(sessions[k].messages),
                           awaitingOperator |-> sessions[k].awaitingOperator]])
  /\ UNCHANGED <<env, sessions, globalIndex, pending, now>>

\* every route of the server
NextViews ==
  \/ Next
  \/ \E sid \in SidInputs : GetDebrief(sid)
  \/ ExportAll
  \/ \E sid \in SidInputs : OperatorTranscript(sid)
  \/ DebugSessions

SpecViews == Init /\ [][NextViews]_vars

(* ------------------------------ properties ----------------------------- *)
\* every message of the logs ss, with the session and position that hold it
StoredIn(ss) ==
  UNION {{[sid |-> sid, pos |-> j, msg |-> ss[sid].messages[j]] :
            j \in DOMAIN ss[sid].messages} : sid \in DOMAIN ss}

\* the messages a step appended
Appended == StoredIn(sessions') \ StoredIn(sessions)

\* C1: every appended message gets an i above the counter and above every i
\* stored before it, in whatever session; no two stored messages share an i;
\* within a log i increases strictly with the position.
C1_GlobalSequence ==
  [][ LET old == StoredIn(sessions)
          new == StoredIn(sessions')
      IN /\ \A n \in new \ old :
              /\ n.msg.i > globalIndex
              /\ \A o \in old : n.msg.i > o.msg.i
         /\ \A a, b \in new :
              /\ a.msg.i = b.msg.i => a = b
              /\ (a.sid = b.sid /\ a.pos < b.pos) => a.msg.i < b.msg.i ]_vars

\* an AI request is suspended on the responder while another session has
\* appended after its user message
C1_Witness ==
  \E p \in pending : \E e \in StoredIn(sessions) :
     e.sid # p.sessionId /\ e.msg.i > p.userI

\* the rule of the data model: Human, log non-empty, last message from the user
Derived(s) ==
  /\ s.condition = "human"
  /\ s.messages # <<>>
  /\ s.messages[Len(s.messages)].role = "user"

\* C2: the stored flag of every session equals the rule after every step, and
\* the value a poll of a session reports equals the rule for that session.
C2_AwaitingConsistent ==
  [][ /\ \A sid \in DOMAIN sessions' :
           sessions'[sid].awaitingOperator = Derived(sessions'[sid])
      /\ \A sid \in DOMAIN sessions :
           (\E after \in AfterInputs : PollMessages(sid, after))
             => res'.body.awaitingOperator = Derived(sessions[sid]) ]_vars

\* a poll reported a Human session as awaiting again: a user message, the
\* operator's reply and a further user message are stored, the flag is set
C2_Witness ==
  /\ res.route = "messages"
  /\ res.status = 200
  /\ res.body.awaitingOperator
  /\ \E sid \in DOMAIN sessions :
       /\ sessions[sid].condition = "human"
       /\ Len(sessions[sid].messages) = 3
       /\ sessions[sid].messages[1].role = "user"
       /\ sessions[sid].messages[2].role = "human"
       /\ sessions[sid].messages[3].role = "user"
       /\ sessions[sid].awaitingOperator
       /\ res.body.items = sessions[sid].messages

\* the roles a step appended to session sid
AppendedRoles(sid) == {n.msg.role : n \in {e \in Appended : e.sid = sid}}

\* C3: on a Human session the flag is true right after a user append and false
\* right after a human append; it rises only in a step appending a user
\* message to that session and falls only in one appending a human message.
C3_FlagTransitions ==
  [][ \A sid \in DOMAIN sessions :
        sessions[sid].condition = "human" =>
          /\ "user" \in AppendedRoles(sid) => sessions'[sid].awaitingOperator
          /\ "human" \in AppendedRoles(sid) => ~sessions'[sid].awaitingOperator
          /\ (~sessions[sid].awaitingOperator /\ sessions'[sid].awaitingOperator)
               => "user" \in AppendedRoles(sid)
          /\ (sessions[sid].awaitingOperator /\ ~sessions'[sid].awaitingOperator)
               => "human" \in AppendedRoles(sid) ]_vars

\* a Human session reopened by a user message after an operator reply
C3_Witness ==
  \E sid \in DOMAIN sessions :
     /\ sessions[sid].condition = "human"
     /\ Len(sessions[sid].messages) = 3
     /\ sessions[sid].messages[2].role = "human"
     /\ sessions[sid].messages[3].role = "user"
     /\ sessions[sid].awaitingOperator

\* C4: an AI session never has the flag set, is never reported as awaiting and
\* is never listed in the inbox, whatever its last message.
C4_AiNeverAwaiting ==
  \A sid \in DOMAIN sessions :
     sessions[sid].condition = "AI" =>
       /\ ~sessions[sid].awaitingOperator
       /\ ~isAwaitingOperator(sessions[sid])
       /\ \A k \in DOMAIN inboxItems : inboxItems[k].sessionId # sid
       /\ (res.route = "inbox" =>
             \A k \in DOMAIN res.body.items : res.body.items[k].sessionId # sid)

\* the responder failed on an AI session whose last message is the user's,
\* and the inbox has a Human session to list
C4_Witness ==
  /\ res = Internal("chat")
  /\ \E sid \in DOMAIN sessions :
       /\ sessions[sid].condition = "AI"
       /\ sessions[sid].messages # <<>>
       /\ Last(sessions[sid].messages).role = "user"
  /\ inboxItems # <<>>

\* C5: a poll of an existing session returns the messages of its log with i
\* above the cursor, all of them, nothing else, in log order.
C5_PollSince ==
  [][ \A sid \in DOMAIN sessions, after \in AfterInputs :
        PollMessages(sid, after) =>
          LET items == res'.body.items
              log == sessions[sid].messages
              above(m) == ~after.nan /\ m.i > after.val
          IN /\ res'.status = 200
             /\ \A k \in DOMAIN items : above(items[k])
             /\ \A k \in DOMAIN items :
                  \E e \in StoredIn(sessions) : e.sid = sid /\ e.msg = items[k]
             /\ \A k \in DOMAIN items : \A e \in StoredIn(sessions) :
                  e.msg.i = items[k].i => e.sid = sid
             /\ \A j \in DOMAIN log : above(log[j]) => \E k \in DOMAIN items : items[k] = log[j]
             /\ \A k, l \in DOMAIN items :
                  k < l => \E j1, j2 \in DOMAIN log :
                             j1 < j2 /\ log[j1] = items[k] /\ log[j2] = items[l] ]_vars

\* a poll returned the tail of a log, leaving out an earlier message, while
\* another session holds messages too
C5_Witness ==
  /\ res.route = "messages"
  /\ res.status = 200
  /\ \E sid \in DOMAIN sessions :
       /\ Len(res.body.items) = 2
       /\ Len(sessions[sid].messages) = 3
       /\ res.body.items = SubSeq(sessions[sid].messages, 2, 3)

\* C6: every stored message, whatever its role, has a text of at most 2000
\* units.
C6_TextBounded ==
  \A e \in StoredIn(sessions) : e.msg.text <= SliceLimit

\* C7: a step answering Internal is the failure of a suspended request: its
\* user message is still in the log with its number, nothing was appended, no
\* session and no counter changed.
C7_FailureKeepsUserTurn ==
  [][ res' = Internal("chat") =>
        \E p \in pending :
           /\ p \notin pending'
           /\ \E j \in DOMAIN sessions'[p.sessionId].messages :
                /\ sessions'[p.sessionId].messages[j].i = p.userI
                /\ sessions'[p.sessionId].messages[j].role = "user"
           /\ StoredIn(sessions') = StoredIn(sessions)
           /\ sessions' = sessions
           /\ globalIndex' = globalIndex ]_vars

\* the responder failed: the AI session ends on its user message and nothing
\* is suspended any more, while another session holds messages
C7_Witness ==
  /\ res = Internal("chat")
  /\ pending = {}
  /\ \E a, b \in DOMAIN sessions :
       /\ a # b
       /\ sessions[a].condition = "AI"
       /\ sessions[a].messages # <<>>
       /\ Last(sessions[a].messages).role = "user"
       /\ sessions[b].messages # <<>>

\* C8: while a request is suspended on the responder, the operations on any
\* other session stay enabled (up to the bounds of the model); what another
\* session appends meanwhile is numbered above the suspended request's user
\* message, and the ai message appended on return is numbered above all of it.
C8_OthersNotBlocked ==
  [][ \A p \in pending :
        /\ \A b \in DOMAIN sessions \ {p.sessionId} :
             /\ \A after \in AfterInputs : ENABLED PollMessages(b, after)
             /\ ENABLED OperatorInbox
             /\ Len(sessions) < MaxSessions => ENABLED CreateSession("")
             /\ \A text \in TextInputs :
                  /\ (globalIndex < MaxIndex \/ sessions[b].condition = "AI" \/ ~text.truthy)
                       => ENABLED OperatorReply(b, text)
                  /\ (\/ ~text.truthy
                      \/ /\ globalIndex < MaxIndex
                         /\ sessions[b].condition = "AI" => Cardinality(pending) < MaxPending)
                       => ENABLED SubmitUserMessage(b, text)
        /\ \A n \in Appended : n.sid # p.sessionId => n.msg.i > p.userI
        /\ \A reply \in ReplyLens \cup {FallbackLen} :
             ChatResume(p, reply) =>
               \A e \in StoredIn(sessions) : e.msg.i < Last(sessions'[p.sessionId].messages).i
    ]_vars

\* a request returned after another session appended during its suspension
C8_Witness ==
  /\ res.route = "chat"
  /\ res.status = 200
  /\ \E a, b \in DOMAIN sessions :
       /\ a # b
       /\ sessions[a].condition = "AI"
       /\ Len(sessions[a].messages) = 2
       /\ sessions[a].messages[2].role = "ai"
       /\ \E j \in DOMAIN sessions[b].messages :
            /\ sessions[a].messages[1].i < sessions[b].messages[j].i
            /\ sessions[b].messages[j].i < sessions[a].messages[2].i

Rejections ==
  {MissingFields("chat"), NotFound("chat"), NotFound("messages"), NotFound("reply"),
   InvalidState("reply"), InvalidInput("reply")}

\* C9: a step answering MissingFields, NotFound, InvalidState or InvalidInput
\* changes no log, no flag and not the counter.
C9_RejectionsChangeNothing ==
  [][ res' \in Rejections =>
        /\ sessions' = sessions
        /\ globalIndex' = globalIndex
        /\ pending' = pending ]_vars

\* an operator reply without text was rejected on a session awaiting the
\* operator
C9_Witness ==
  /\ res = InvalidInput("reply")
  /\ \E sid \in DOMAIN sessions : sessions[sid].awaitingOperator

\* C10: an operator reply to an existing AI session answers InvalidState
\* whatever the text, and one to an unknown session answers NotFound.
C10_ReplyCheckOrder ==
  [][ \A sid \in SidInputs, text \in TextInputs :
        OperatorReply(sid, text) =>
          /\ (Exists(sid) /\ sessions[sid].condition = "AI") => res' = InvalidState("reply")
          /\ ~Exists(sid) => res' = NotFound("reply") ]_vars

\* an operator reply to an AI session holding messages was rejected
C10_Witness ==
  /\ res = InvalidState("reply")
  /\ \E sid \in DOMAIN sessions :
       sessions[sid].condition = "AI" /\ sessions[sid].messages # <<>>

\* C11: a chat request with text on a Human session appends one user message
\* to it and nothing else, suspends on no responder and answers queued without
\* a reply; a poll from cursor 0 of a Human session holding only that message
\* returns it with awaitingOperator true.
C11_HumanQueued ==
  [][ \A sid \in DOMAIN sessions :
        sessions[sid].condition = "human" =>
          /\ \A text \in TextInputs :
               (text.truthy /\ SubmitUserMessage(sid, text)) =>
                 /\ Cardinality(Appended) = 1
                 /\ \A n \in Appended :
                      /\ n.sid = sid
                      /\ n.pos = Len(sessions[sid].messages) + 1
                      /\ n.msg.role = "user"
                 /\ pending' = pending
                 /\ res' = Ok("chat", [queued |-> TRUE])
          /\ ( /\ PollMessages(sid, Num(0))
               /\ Len(sessions[sid].messages) = 1
               /\ sessions[sid].messages[1].role = "user" ) =>
                 res'.body = [items |-> sessions[sid].messages, awaitingOperator |-> TRUE]
    ]_vars

\* a poll from cursor 0 returned the single user message of a Human session
C11_Witness ==
  /\ res.route = "messages"
  /\ res.status = 200
  /\ Len(res.body.items) = 1
  /\ res.body.items[1].role = "user"
  /\ res.body.awaitingOperator
  /\ \E sid \in DOMAIN sessions :
       /\ sessions[sid].condition = "human"
       /\ sessions[sid].messages = res.body.items

\* the entry a step appended to session sid at offset k past the old end
AppendedAt(sid, k) ==
  [sid |-> sid, pos |-> Len(sessions[sid].messages) + k,
   msg |-> sessions'[sid].messages[Len(sessions[sid].messages) + k]]

\* C12: a chat request on an AI session whose responder call succeeds appends
\* two messages to the session, the user message and later an ai message whose
\* text is the responder's result; it answers queued false with that reply and
\* the ai message's i, which is above the user message's i.
C12_AiReply ==
  [][ /\ \A p \in pending : \A reply \in ReplyLens \cup {FallbackLen} :
           ChatResume(p, reply) =>
             LET sid == p.sessionId
                 ai == AppendedAt(sid, 1)
             IN /\ Appended = {ai}
                /\ ai.msg.role = "ai"
                /\ ai.msg.text = reply
                /\ ai.msg.i > p.userI
                /\ \E j \in DOMAIN sessions[sid].messages :
                     /\ sessions[sid].messages[j].i = p.userI
                     /\ sessions[sid].messages[j].role = "user"
                /\ res' = Ok("chat", [reply |-> reply, replyIndex |-> ai.msg.i,
                                      queued |-> FALSE])
      /\ \A sid \in DOMAIN sessions : \A text \in TextInputs :
           ( /\ text.truthy
             /\ sessions[sid].condition = "AI"
             /\ SubmitUserMessage(sid, text) ) =>
             IF env.GEMINI_API_KEY
               THEN \* suspended: the user message now, the ai message on return
                    /\ Appended = {AppendedAt(sid, 1)}
                    /\ AppendedAt(sid, 1).msg.role = "user"
                    /\ \E p \in pending' \ pending :
                         /\ pending' = pending \cup {p}
                         /\ p.sessionId = sid
                         /\ p.userI = AppendedAt(sid, 1).msg.i
                    /\ res' = NoRes
               ELSE LET user == AppendedAt(sid, 1)
                        ai == AppendedAt(sid, 2)
                    IN /\ Appended = {user, ai}
                       /\ user.msg.role = "user"
                       /\ ai.msg.role = "ai"
                       /\ ai.msg.i > user.msg.i
                       /\ ai.msg.text = StubReply(sessions[sid].systemPrompt, text)
                       /\ res' = Ok("chat", [reply |-> ai.msg.text, replyIndex |-> ai.msg.i,
                                             queued |-> FALSE])
    ]_vars

\* C13: the operator inbox lists exactly one item for each session that is
\* Human and has awaitingOperator set when it is called and none for any other
\* session, each item carrying the text and timestamp of that session's most
\* recent user message, latest timestamp first; the call changes no state.
C13_InboxListing ==
  [][ OperatorInbox =>
        LET items == res'.body.items
            want == {sid \in DOMAIN sessions :
                       sessions[sid].condition = "human" /\ sessions[sid].awaitingOperator}
        IN /\ UNCHANGED <<env, sessions, globalIndex, pending, now>>
           /\ res'.route = "inbox"
           /\ res'.status = 200
           /\ Len(items) = Cardinality(want)
           /\ {items[k].sessionId : k \in DOMAIN items} = want
           /\ \A k \in DOMAIN items :
                LET log == sessions[items[k].sessionId].messages
                IN \E j \in DOMAIN log :
                     /\ log[j].role = "user"
                     /\ \A l \in DOMAIN log : l > j => log[l].role # "user"
                     /\ items[k].lastAt = log[j].t
                     /\ items[k].lastUserText = log[j].text
           /\ \A k, l \in DOMAIN items : k < l => items[k].lastAt >= items[l].lastAt
    ]_vars

\* two awaiting Human sessions, listed against their creation order
C13_Witness ==
  /\ res.route = "inbox"
  /\ Len(res.body.items) = 2
  /\ res.body.items[1].sessionId = 2
  /\ res.body.items[2].sessionId = 1
  /\ res.body.items[1].lastAt > res.body.items[2].lastAt

\* what a poll of session sid from cursor `after` answers in the current state
PollResult(sid, after) ==
  [items |-> since(sessions[sid], after),
   awaitingOperator |-> isAwaitingOperator(sessions[sid])]

\* C14: a poll changes no session, message, flag, counter or in-flight request
\* and answers PollResult; and any step that appends nothing to a session,
\* whatever it appends to other sessions, leaves the answer of a poll of that
\* session the same for every cursor.
C14_PollPure ==
  [][ /\ \A sid \in SidInputs : \A after \in AfterInputs :
           PollMessages(sid, after) =>
             /\ UNCHANGED <<env, sessions, globalIndex, pending, now>>
             /\ Exists(sid) => res'.body = PollResult(sid, after)
      /\ \A sid \in DOMAIN sessions :
           sessions'[sid].messages = sessions[sid].messages =>
             \A after \in AfterInputs : PollResult(sid, after)' = PollResult(sid, after)
    ]_vars

\* a poll answered with the whole log of one session after another session
\* received a later message
C14_Witness ==
  /\ res.route = "messages"
  /\ res.status = 200
  /\ \E sid, other \in DOMAIN sessions :
       /\ sid # other
       /\ Len(res.body.items) > 0
       /\ res.body.items = sessions[sid].messages
       /\ \E k \in DOMAIN sessions[other].messages :
            sessions[other].messages[k].i > Last(sessions[sid].messages).i

\* the mode hint of a session request: the query's mode, else SESSION_MODE, else
\* "mixed"
HintOf(q) ==
  IF q # "" THEN q ELSE IF env.SESSION_MODE # "" THEN env.SESSION_MODE ELSE "mixed"

\* C15: a session request whose hint is AI in any letter case creates an AI
\* session, one whose hint is HUMAN in any letter case creates a Human session,
\* any other hint creates a session of one of the two conditions; the new
\* session has an empty log and awaitingOperator false; and no step of any
\* operation removes a session or changes its condition.
C15_ConditionFixed ==
  [][ /\ \A q \in ModeInputs :
           CreateSession(q) =>
             LET id == Len(sessions) + 1
                 s == sessions'[id]
             IN /\ DOMAIN sessions' = DOMAIN sessions \cup {id}
                /\ HintOf(q) \in {"AI", "ai", "Ai", "aI"} => s.condition = "AI"
                /\ HintOf(q) \in {"HUMAN", "human", "Human"} => s.condition = "human"
                /\ s.condition \in {"AI", "human"}
                /\ s.messages = <<>>
                /\ s.awaitingOperator = FALSE
                /\ res' = Ok("session", [sessionId |-> id, condition |-> s.condition])
      /\ \A sid \in DOMAIN sessions :
           /\ sid \in DOMAIN sessions'
           /\ sessions'[sid].condition = sessions[sid].condition
    ]_vars

\* under SESSION_MODE=human a Human session was just created, empty and not
\* awaiting, next to an AI session that has since been written to
C15_Witness ==
  /\ env.SESSION_MODE = "human"
  /\ res.route = "session"
  /\ res.body.condition = "human"
  /\ Len(sessions) = 2
  /\ sessions[2].condition = "human"
  /\ sessions[2].messages = <<>>
  /\ ~sessions[2].awaitingOperator
  /\ sessions[1].condition = "AI"
  /\ Len(sessions[1].messages) > 0

\* C16: in every step of every route each session is kept and its log is
\* either the same or the previous log with messages added at the end, the
\* earlier messages keeping their position and every field; and a log grows
\* only in a step of a chat request on that session (its intake or the return
\* of its responder call) or of an operator reply to it.
C16_AppendOnly ==
  [][ \A sid \in DOMAIN sessions :
        /\ sid \in DOMAIN sessions'
        /\ LET old == sessions[sid].messages
               new == sessions'[sid].messages
           IN /\ Len(new) >= Len(old)
              /\ \A k \in DOMAIN old : new[k] = old[k]
              /\ Len(new) > Len(old) =>
                   \/ \E text \in TextInputs : SubmitUserMessage(sid, text)
                   \/ \E p \in pending : \E reply \in ReplyLens \cup {FallbackLen} :
                        p.sessionId = sid /\ ChatResume(p, reply)
                   \/ \E text \in TextInputs : OperatorReply(sid, text)
    ]_vars

\* a debrief read of a Human session after three appends, last one by the user
C16_Witness ==
  /\ res.route = "debrief"
  /\ res.status = 200
  /\ \E sid \in DOMAIN sessions :
       /\ res.body.transcript = sessions[sid].messages
       /\ Len(sessions[sid].messages) = 3
       /\ sessions[sid].messages[2].role = "human"
       /\ sessions[sid].messages[3].role = "user"

\* C17: the history held by every responder call in flight has no ai message
\* and is, in log order, exactly the user and human messages that were in the
\* session's log when the call was made (those up to the request's own user
\* message).
C17_HistoryWithoutAi ==
  \A p \in pending :
    /\ \A k \in DOMAIN p.history : p.history[k].role \in {"user", "human"}
    /\ p.history = SelectSeq(sessions[p.sessionId].messages,
                             LAMBDA m : m.role \in {"user", "human"} /\ m.i <= p.userI)

\* a responder call in flight on a session that already holds an ai reply:
\* its history is the two user messages around that reply
C17_Witness ==
  \E p \in pending :
    /\ Len(sessions[p.sessionId].messages) = 3
    /\ sessions[p.sessionId].messages[2].role = "ai"
    /\ p.userI = sessions[p.sessionId].messages[3].i
    /\ Len(p.history) = 2

\* C18: an operator reply with non-empty text to an existing Human session,
\* awaiting or idle, with or without messages, appends exactly one message, a
\* human one at the end of that session's log, leaves awaitingOperator false
\* and answers with the bare acknowledgment.
C18_ReplyAlwaysAccepted ==
  [][ \A sid \in DOMAIN sessions : \A text \in TextInputs :
        ( /\ text.truthy
          /\ sessions[sid].condition = "human"
          /\ OperatorReply(sid, text) ) =>
          /\ res' = Ok("reply", [ok |-> TRUE])
          /\ Cardinality(Appended) = 1
          /\ \A n \in Appended :
               /\ n.sid = sid
               /\ n.pos = Len(sessions[sid].messages) + 1
               /\ n.msg.role = "human"
          /\ sessions'[sid].awaitingOperator = FALSE
    ]_vars

\* a reply accepted by a Human session that never received a user message
C18_Witness ==
  /\ res = Ok("reply", [ok |-> TRUE])
  /\ \E sid \in DOMAIN sessions :
       /\ sessions[sid].condition = "human"
       /\ Len(sessions[sid].messages) = 1
       /\ sessions[sid].messages[1].role = "human"
       /\ ~sessions[sid].awaitingOperator

\* C19: in every reachable state the log of an AI session holds only user and
\* ai messages and the log of a Human session holds only user and human
\* messages.
C19_RolesMatchCondition ==
  \A sid \in DOMAIN sessions :
    \A k \in DOMAIN sessions[sid].messages :
      LET role == sessions[sid].messages[k].role
      IN /\ sessions[sid].condition \in {"AI", "human"}
         /\ sessions[sid].condition = "AI" => role \in {"user", "ai"}
         /\ sessions[sid].condition = "human" => role \in {"user", "human"}

\* an AI session holding an ai reply next to a Human session holding an
\* operator's message
C19_Witness ==
  \E a, h \in DOMAIN sessions :
    /\ sessions[a].condition = "AI"
    /\ \E k \in DOMAIN sessions[a].messages : sessions[a].messages[k].role = "ai"
    /\ sessions[h].condition = "human"
    /\ \E k \in DOMAIN sessions[h].messages : sessions[h].messages[k].role = "human"

\* the number of messages of a role among the first n of a log
CountRole(log, n, role) == Cardinality({k \in 1..n : log[k].role = role})

\* user messages of session sid not answered by an ai message and not owed by
\* a responder call still in flight
Unanswered(sid) ==
  CountRole(sessions[sid].messages, Len(sessions[sid].messages), "user")
    - CountRole(sessions[sid].messages, Len(sessions[sid].messages), "ai")
    - Cardinality({p \in pending : p.sessionId = sid})

\* C20: after every step, every prefix of an AI session's log holds at least
\* as many user messages as ai messages, however many chat requests are in
\* flight on it and in whatever order they return; and the user messages minus
\* the ai messages minus the calls in flight is 0 for a new session and grows,
\* by one, exactly in the steps where a responder call of that session fails.
C20_UserAiBalance ==
  [][ \A sid \in DOMAIN sessions' :
        sessions'[sid].condition = "AI" =>
          /\ \A n \in 0..Len(sessions'[sid].messages) :
               CountRole(sessions'[sid].messages, n, "user")
                 >= CountRole(sessions'[sid].messages, n, "ai")
          /\ Unanswered(sid)' =
               (IF sid \in DOMAIN sessions THEN Unanswered(sid) ELSE 0)
               + (IF \E p \in pending : p.sessionId = sid /\ ChatFail(p) THEN 1 ELSE 0)
    ]_vars

\* two requests were in flight on one AI session and the later one returned
\* first: its ai message is stored while the earlier call is still pending
C20_Witness ==
  \E sid \in DOMAIN sessions :
    /\ sessions[sid].condition = "AI"
    /\ Len(sessions[sid].messages) = 3
    /\ sessions[sid].messages[1].role = "user"
    /\ sessions[sid].messages[2].role = "user"
    /\ sessions[sid].messages[3].role = "ai"
    /\ {p.userI : p \in pending} = {sessions[sid].messages[1].i}
    /\ res.route = "chat"
    /\ res.status = 200
====
